---- MODULE Spec2Model ----
(***************************************************************************)
(* CustomTokenizer (src/lib/tokenizer.js): the educational BPE tokenizer.  *)
(*                                                                         *)
(* A JavaScript string is a sequence of one-character strings (one per     *)
(* code point); a Map keyed by strings is a function whose domain is a set *)
(* of such sequences; a Map whose iteration order matters (the pair-count  *)
(* table of getPairs) is a sequence of entries in insertion order.         *)
(***************************************************************************)
EXTENDS Integers, Sequences, FiniteSets, TLC

\* ---------------------------------------------------------------- bounds
\* longest training corpus drawn by trainFromText
MaxLen == 3
\* largest target vocabulary size drawn by trainFromText
MaxTarget == 22
\* trainFromText calls made on one tokenizer instance
MaxCalls == 2
\* longest text tried by the encode/decode round trip
MaxTextLen == 1
\* model changes made in the interface
MaxModelChanges == 2
\* runs of compareModels
MaxCompares == 1

VARIABLES
    this,     \* the CustomTokenizer instance: vocab, merges, specialTokens, decoder
    frame,    \* the activation of trainFromText on `this`
    other,    \* a second CustomTokenizer instance (the determinism twin)
    oframe,   \* the activation of trainFromText on `other`
    ret,      \* the last call of a reading method on `this`, and what it returned
    host      \* the components that hold TiktokenWrapper instances

vars == <<this, frame, other, oframe, ret, host>>

\* ------------------------------------------------------- strings and maps
Min(a, b) == IF a < b THEN a ELSE b

Range(s) == {s[k] : k \in 1..Len(s)}

EmptyMap == [k \in {} |-> 0]

\* Map.prototype.set on a map whose iteration order is not used
MapSet(m, k, v) == [x \in (DOMAIN m) \cup {k} |-> IF x = k THEN v ELSE m[x]]

\* Map.prototype.delete
MapDelete(m, k) == [x \in (DOMAIN m) \ {k} |-> m[x]]

MapHas(m, k) == k \in DOMAIN m

MapSize(m) == Cardinality(DOMAIN m)

RECURSIVE Concat(_)
\* Array.prototype.join('') / string concatenation of a list of strings
Concat(ss) == IF ss = <<>> THEN <<>> ELSE Head(ss) \o Concat(Tail(ss))

StartsWith(s, p) == Len(s) >= Len(p) /\ SubSeq(s, 1, Len(p)) = p

Drop(s, n) == SubSeq(s, n + 1, Len(s))

RECURSIVE SplitFrom(_, _, _)
SplitFrom(s, sep, cur) ==
    IF s = <<>> THEN <<cur>>
    ELSE IF StartsWith(s, sep)
         THEN <<cur>> \o SplitFrom(Drop(s, Len(sep)), sep, <<>>)
         ELSE SplitFrom(Tail(s), sep, Append(cur, Head(s)))

\* String.prototype.split(sep) for a non-empty separator string
Split(s, sep) == SplitFrom(s, sep, <<>>)

\* the characters the regular expression class \s and trim() treat as white space
IsSpace(c) == c \in {" ", "\n", "\t"}

RECURSIVE ReplaceWhitespace(_)
\* text.replace(/\s+/g, ' ')
ReplaceWhitespace(s) ==
    IF s = <<>> THEN <<>>
    ELSE IF IsSpace(Head(s))
         THEN IF Len(s) > 1 /\ IsSpace(s[2])
              THEN ReplaceWhitespace(Tail(s))
              ELSE <<" ">> \o ReplaceWhitespace(Tail(s))
         ELSE <<Head(s)>> \o ReplaceWhitespace(Tail(s))

RECURSIVE TrimStart(_)
TrimStart(s) == IF s # <<>> /\ IsSpace(Head(s)) THEN TrimStart(Tail(s)) ELSE s

RECURSIVE TrimEnd(_)
TrimEnd(s) ==
    IF s # <<>> /\ IsSpace(s[Len(s)]) THEN TrimEnd(SubSeq(s, 1, Len(s) - 1)) ELSE s

\* String.prototype.trim
Trim(s) == TrimEnd(TrimStart(s))

SelectSeqNonEmpty(ws) == SelectSeq(ws, LAMBDA w : Len(Trim(w)) > 0)

\* ------------------------------------------------------------ JS values
\* A value passed as `text`: a string, or a non-string with its ToString image
\* (the result of `text + '...'`, which coerces).
Str(cs) == [kind |-> "string", chars |-> cs]

JsNull == [kind |-> "null", chars |-> <<"n", "u", "l", "l">>]

JsUndefined ==
    [kind |-> "undefined", chars |-> <<"u", "n", "d", "e", "f", "i", "n", "e", "d">>]

JsNumber == [kind |-> "number", chars |-> <<"7">>]

JsToString(v) == v.chars

\* an array of token ids
JsArray(items) == [kind |-> "array", items |-> items]

\* a guard `text === null` in the place of `!text`
NullOnly(v) == v.kind = "null"

\* `!text`: the values that take the early return of encode
Falsy(v) ==
    \/ v.kind \in {"null", "undefined"}
    \/ v.kind = "string" /\ v.chars = <<>>

\* `if (!bestPair)`: the null that getBestPair returns
Null == <<>>

\* ------------------------------------------------------ program constants
EndOfText == <<"<", "|", "e", "n", "d", "o", "f", "t", "e", "x", "t", "|", ">">>

StartOfText ==
    <<"<", "|", "s", "t", "a", "r", "t", "o", "f", "t", "e", "x", "t", "|", ">">>

Unknown == <<"<", "|", "u", "n", "k", "n", "o", "w", "n", "|", ">">>

Space == <<"<", "|", "s", "p", "a", "c", "e", "|", ">">>

specials == <<EndOfText, StartOfText, Unknown, Space>>

\* ' \n\t!@#$%^&*()[]{}'
SeedChars ==
    <<" ", "\n", "\t", "!", "@", "#", "$", "%", "^", "&", "*", "(", ")",
      "[", "]", "{", "}">>

\* '|||'
PairSeparator == <<"|", "|", "|">>

\* Math.min(2000, ...)
MaxMergeIterations == 2000

\* the `|| 2` of encode
DefaultUnknownId == 2

\* trainFromText(text, vocabSize = 8000)
DefaultVocabSize == 8000

\* ------------------------------------------------------------ constructor
RECURSIVE SpecialsFrom(_, _)
\* specials.forEach((token, idx) => { specialTokens.set(token, idx); decoder.set(idx, token) })
SpecialsFrom(T, idx) ==
    IF idx >= Len(specials) THEN T
    ELSE SpecialsFrom(
             [T EXCEPT !.specialTokens = MapSet(@, specials[idx + 1], idx),
                       !.decoder = MapSet(@, idx, specials[idx + 1])],
             idx + 1)

initializeSpecialTokens(T) == SpecialsFrom(T, 0)

\* new CustomTokenizer()
NewTokenizer ==
    initializeSpecialTokens(
        [vocab |-> EmptyMap, merges |-> <<>>, specialTokens |-> EmptyMap,
         decoder |-> EmptyMap])

getVocabSize(T) == MapSize(T.vocab)

\* ------------------------------------------------------- trainFromText
RECURSIVE Distinct(_, _)
Distinct(s, acc) ==
    IF s = <<>> THEN acc
    ELSE Distinct(Tail(s),
                  IF Head(s) \in Range(acc) THEN acc ELSE Append(acc, Head(s)))

\* Array.from(new Set(string)): the distinct code points in first-occurrence order
ArrayFromSet(s) == Distinct(s, <<>>)

\* an alphabet with the seed characters before those of the text
AlphabetSeedsFirst(text) == ArrayFromSet(SeedChars \o JsToString(text))

\* const chars = Array.from(new Set(text + ' \n\t!@#$%^&*()[]{}'))
AlphabetOf(text) == ArrayFromSet(JsToString(text) \o SeedChars)

\* vocab.set(token, tokenId); decoder.set(tokenId, token).  S pairs the
\* tokenizer with the log of the assignments made by the running call.
VocabAssign(S, token, tokenId) ==
    [tok |-> [S.tok EXCEPT !.vocab = MapSet(@, token, tokenId),
                           !.decoder = MapSet(@, tokenId, token)],
     log |-> Append(S.log, [token |-> token, id |-> tokenId,
                            fresh |-> ~MapHas(S.tok.vocab, token)])]

\* seed ids counted from 0, without the special-token offset
SeedTokenIdFromZero(T, idx) == idx

\* const tokenId = this.specialTokens.size + idx
SeedTokenId(T, idx) == MapSize(T.specialTokens) + idx

RECURSIVE SeedFrom(_, _, _)
\* chars.forEach((char, idx) => { ... })
SeedFrom(S, chars, idx) ==
    IF idx >= Len(chars) THEN S
    ELSE SeedFrom(VocabAssign(S, <<chars[idx + 1]>>, SeedTokenId(S.tok, idx)),
                  chars, idx + 1)

\* a guard `if (!text) return` before the seeding: the empty corpus seeds nothing
SeededUnlessEmpty(T, text) ==
    IF JsToString(text) = <<>> THEN [tok |-> T, log |-> <<>>]
    ELSE SeedFrom([tok |-> T, log |-> <<>>], AlphabetOf(text), 0)

\* a training that starts by emptying the vocabulary and the merge rules
SeededAfterReset(T, text) ==
    SeedFrom([tok |-> [T EXCEPT !.vocab = EmptyMap, !.merges = <<>>],
              log |-> <<>>],
             AlphabetOf(text), 0)

\* lines 27-32: the alphabet of text and the seed characters is given its ids
Seeded(T, text) == SeedFrom([tok |-> T, log |-> <<>>], AlphabetOf(text), 0)

\* preprocessText(text), called on a string
preprocessText(s) == SelectSeqNonEmpty(Split(ReplaceWhitespace(s), <<" ">>))

\* ------------------------------------------------------------- getPairs
\* pairs.set(pair, (pairs.get(pair) || 0) + 1) on the insertion-ordered Map
PairsIncrement(pairs, key) ==
    IF \E k \in 1..Len(pairs) : pairs[k].key = key
    THEN [k \in 1..Len(pairs) |->
             IF pairs[k].key = key
             THEN [key |-> key, count |-> pairs[k].count + 1]
             ELSE pairs[k]]
    ELSE Append(pairs, [key |-> key, count |-> 1])

\* const pair = chars[i] + '|||' + chars[i + 1]
PairKey(left, right) == <<left>> \o PairSeparator \o <<right>>

RECURSIVE PairsOfWord(_, _, _)
\* for (let i = 0; i < chars.length - 1; i++) { ... }, chars = Array.from(word)
PairsOfWord(pairs, chars, i) ==
    IF i >= Len(chars) - 1 THEN pairs
    ELSE PairsOfWord(PairsIncrement(pairs, PairKey(chars[i + 1], chars[i + 2])),
                     chars, i + 1)

\* a count over the words run together, boundaries included
PairsAcrossWords(pairs, ws) == PairsOfWord(pairs, Concat(ws), 0)

RECURSIVE PairsOfWords(_, _)
\* for (const word of words) { ... }
PairsOfWords(pairs, ws) ==
    IF ws = <<>> THEN pairs
    ELSE PairsOfWords(PairsOfWord(pairs, Head(ws), 0), Tail(ws))

getPairs(ws) == PairsOfWords(<<>>, ws)

\* ---------------------------------------------------------- getBestPair
RECURSIVE LastFrom(_, _, _, _)
\* a loop that keeps every pair it meets: the last one counted is returned
LastFrom(pairs, k, bestPair, maxCount) ==
    IF k > Len(pairs) THEN bestPair
    ELSE LastFrom(pairs, k + 1, Split(pairs[k].key, PairSeparator),
                  pairs[k].count)

RECURSIVE BestFrom(_, _, _, _)
\* for (const [pair, count] of pairs) if (count > maxCount) { ... }
BestFrom(pairs, k, bestPair, maxCount) ==
    IF k > Len(pairs) THEN bestPair
    ELSE IF pairs[k].count > maxCount
         THEN BestFrom(pairs, k + 1, Split(pairs[k].key, PairSeparator),
                       pairs[k].count)
         ELSE BestFrom(pairs, k + 1, bestPair, maxCount)

getBestPair(pairs) == IF Len(pairs) = 0 THEN Null ELSE BestFrom(pairs, 1, Null, 0)

\* ------------------------------------------------------------ mergePair
\* the characters of the class [.*+?^${}()|[\]\\]
RegExpSpecial ==
    {".", "*", "+", "?", "^", "$", "{", "}", "(", ")", "|", "[", "]", "\\"}

RECURSIVE escapeRegExp(_)
\* string.replace(/[.*+?^${}()|[\]\\]/g, '\\$&')
escapeRegExp(s) ==
    IF s = <<>> THEN <<>>
    ELSE (IF Head(s) \in RegExpSpecial THEN <<"\\", Head(s)>> ELSE <<Head(s)>>)
         \o escapeRegExp(Tail(s))

RECURSIVE PatternAtoms(_)
\* new RegExp(source): the atoms of a source without groups or classes; an
\* escaped character matches itself, an unescaped special one is an operator.
PatternAtoms(src) ==
    IF src = <<>> THEN <<>>
    ELSE IF Head(src) = "\\" /\ Len(src) > 1
         THEN <<[lit |-> TRUE, ch |-> src[2]]>> \o PatternAtoms(Drop(src, 2))
         ELSE <<[lit |-> Head(src) \notin RegExpSpecial, ch |-> Head(src)]>>
              \o PatternAtoms(Tail(src))

\* the string a pattern of literal atoms matches
PatternText(atoms) == [k \in 1..Len(atoms) |-> atoms[k].ch]

RECURSIVE GetSubstitution(_, _, _, _)
\* the expansion of a replacement template for one match (no capture groups):
\* $$ is '$', $& the match, $` the text before it, $' the text after it
GetSubstitution(tmpl, matched, str, pos) ==
    IF tmpl = <<>> THEN <<>>
    ELSE IF Head(tmpl) = "$" /\ Len(tmpl) > 1 /\ tmpl[2] = "$"
         THEN <<"$">> \o GetSubstitution(Drop(tmpl, 2), matched, str, pos)
    ELSE IF Head(tmpl) = "$" /\ Len(tmpl) > 1 /\ tmpl[2] = "&"
         THEN matched \o GetSubstitution(Drop(tmpl, 2), matched, str, pos)
    ELSE IF Head(tmpl) = "$" /\ Len(tmpl) > 1 /\ tmpl[2] = "`"
         THEN SubSeq(str, 1, pos - 1)
              \o GetSubstitution(Drop(tmpl, 2), matched, str, pos)
    ELSE IF Head(tmpl) = "$" /\ Len(tmpl) > 1 /\ tmpl[2] = "'"
         THEN Drop(str, pos + Len(matched) - 1)
              \o GetSubstitution(Drop(tmpl, 2), matched, str, pos)
    ELSE <<Head(tmpl)>> \o GetSubstitution(Tail(tmpl), matched, str, pos)

RECURSIVE ReplaceFrom(_, _, _, _)
\* str.replace(new RegExp(literal, 'g'), tmpl): leftmost matches, not overlapping
ReplaceFrom(str, pos, pat, tmpl) ==
    IF pos > Len(str) THEN <<>>
    ELSE IF Len(pat) > 0 /\ StartsWith(Drop(str, pos - 1), pat)
         THEN GetSubstitution(tmpl, pat, str, pos)
              \o ReplaceFrom(str, pos + Len(pat), pat, tmpl)
         ELSE <<str[pos]>> \o ReplaceFrom(str, pos + 1, pat, tmpl)

\* word.replace(new RegExp(escapeRegExp(first) + escapeRegExp(second), 'g'), first + second)
MergeWord(word, first, second) ==
    ReplaceFrom(word, 1,
                PatternText(PatternAtoms(escapeRegExp(first) \o escapeRegExp(second))),
                first \o second)

\* const [first, second] = pair; every word rewritten
mergePair(ws, pair) == [k \in 1..Len(ws) |-> MergeWord(ws[k], pair[1], pair[2])]

\* ------------------------------------------------------- encode, decode
\* this.vocab.get(char) || this.specialTokens.get('<|unknown|>') || 2
EncodeChar(T, char) ==
    IF MapHas(T.vocab, <<char>>) /\ T.vocab[<<char>>] # 0
    THEN T.vocab[<<char>>]
    ELSE IF MapHas(T.specialTokens, Unknown) /\ T.specialTokens[Unknown] # 0
         THEN T.specialTokens[Unknown]
         ELSE DefaultUnknownId

RECURSIVE encodeKnownOnly(_, _)
\* an encode that skips the characters the vocabulary does not hold
encodeKnownOnly(T, s) ==
    IF s = <<>> THEN <<>>
    ELSE IF MapHas(T.vocab, <<Head(s)>>)
         THEN <<EncodeChar(T, Head(s))>> \o encodeKnownOnly(T, Tail(s))
         ELSE encodeKnownOnly(T, Tail(s))

\* encode(text) for a string (the empty string takes the `!text` return)
encode(T, s) == [k \in 1..Len(s) |-> EncodeChar(T, s[k])]

\* const decoded = this.decoder.get(token); return decoded || '<|unknown|>'
getTokenText(T, token) ==
    IF MapHas(T.decoder, token) /\ T.decoder[token] # <<>>
    THEN T.decoder[token]
    ELSE Unknown

RECURSIVE JoinWith(_, _)
\* Array.prototype.join(sep)
JoinWith(ss, sep) ==
    IF ss = <<>> THEN <<>>
    ELSE IF Len(ss) = 1 THEN Head(ss)
         ELSE Head(ss) \o sep \o JoinWith(Tail(ss), sep)

\* a decode that joins with join()'s default separator
decodeJoinedByComma(T, tokens) ==
    JoinWith([k \in 1..Len(tokens) |-> getTokenText(T, tokens[k])], <<",">>)

\* decode(tokens) for an array
decode(T, tokens) == Concat([k \in 1..Len(tokens) |-> getTokenText(T, tokens[k])])

\* an encode that gives each character it does not know the next free id
EncodedLearning(T, v) ==
    IF Falsy(v) \/ v.kind # "string"
    THEN [tok |-> T, threw |-> ~Falsy(v), value |-> <<>>]
    ELSE LET unknown == {k \in 1..Len(v.chars) : ~MapHas(T.vocab, <<v.chars[k]>>)}
             learnt == IF unknown = {} THEN T
                       ELSE LET c == v.chars[CHOOSE k \in unknown : TRUE]
                            IN [T EXCEPT !.vocab = MapSet(@, <<c>>, MapSize(@)),
                                         !.decoder = MapSet(@, MapSize(T.vocab), <<c>>)]
         IN [tok |-> learnt, threw |-> FALSE, value |-> encode(learnt, v.chars)]

\* lines 63-76, for any argument: the tokenizer after the call, what the call
\* returns, and whether it throws (`for (const char of text)` on a number)
Encoded(T, v) ==
    IF Falsy(v) THEN [tok |-> T, threw |-> FALSE, value |-> <<>>]
    ELSE IF v.kind = "string"
         THEN [tok |-> T, threw |-> FALSE, value |-> encode(T, v.chars)]
         ELSE [tok |-> T, threw |-> TRUE, value |-> <<>>]

\* lines 78-87, for any argument
Decoded(T, v) ==
    IF v.kind # "array" THEN [tok |-> T, threw |-> FALSE, value |-> <<>>]
    ELSE [tok |-> T, threw |-> FALSE, value |-> decode(T, v.items)]

\* return this.vocab: the table itself is handed out
getVocabLive(T) == [live |-> TRUE, entries |-> T.vocab]

\* return new Map(this.vocab): the entries, and whether the Map returned is
\* the object this.vocab itself
getVocab(T) == [live |-> FALSE, entries |-> T.vocab]

\* ------------------------------------------------- trainFromText, by step
\* The activation record of one trainFromText call: its parameters and locals
\* (text, vocabSize, chars, words, i), where it stands (pc), and what the
\* properties below read of its history (log of id assignments, vocabulary size and
\* number of merge rules before the call, ordinal of the call on its instance).
IdleFrame ==
    [pc |-> "idle", text |-> Str(<<>>), vocabSize |-> 0, chars |-> <<>>,
     words |-> <<>>, i |-> 0, log |-> <<>>, sizeBefore |-> 0,
     mergesBefore |-> 0, call |-> 0]

\* lines 24-35: seeding, then preprocessText, which throws a TypeError when
\* text has no replace method (null, undefined, a number)
Called(T, F, text, vocabSize) ==
    LET chars == AlphabetOf(text)
        S == Seeded(T, text)
        isString == text.kind = "string"
    IN [tok |-> S.tok,
        frame |-> [pc |-> IF isString THEN "loop" ELSE "threw",
                   text |-> text, vocabSize |-> vocabSize, chars |-> chars,
                   words |-> IF isString THEN preprocessText(text.chars) ELSE <<>>,
                   i |-> 0, log |-> S.log, sizeBefore |-> getVocabSize(T),
                   mergesBefore |-> Len(T.merges), call |-> F.call + 1]]

\* `<=` written for `<`: one iteration too many
LoopConditionInclusive(T, F) ==
    F.i <= Min(MaxMergeIterations, F.vocabSize - MapSize(T.vocab))

\* a loop bound that compares i with the target size alone
LoopConditionOnTarget(T, F) == F.i < F.vocabSize

\* i < Math.min(2000, vocabSize - this.vocab.size)
LoopCondition(T, F) ==
    F.i < Min(MaxMergeIterations, F.vocabSize - MapSize(T.vocab))

\* the loop body runs to its end: neither `break` is taken
Continues(T, F) ==
    /\ LoopCondition(T, F)
    /\ Len(getPairs(F.words)) # 0
    /\ getBestPair(getPairs(F.words)) # Null

\* an id counter kept at module level: shared by every instance
MergedTokenIdShared(T) ==
    IF MapSize(this.vocab) > MapSize(other.vocab)
    THEN MapSize(this.vocab)
    ELSE MapSize(other.vocab)

\* const tokenId = this.vocab.size
MergedTokenId(T) == MapSize(T.vocab)

\* lines 38-50: one iteration of the merge loop, and i++
Iterated(T, F) ==
    LET bestPair == getBestPair(getPairs(F.words))
        newToken == bestPair[1] \o bestPair[2]
        T1 == [T EXCEPT !.merges = Append(@, bestPair)]
        S == VocabAssign([tok |-> T1, log |-> F.log], newToken, MergedTokenId(T1))
    IN [tok |-> S.tok,
        frame |-> [F EXCEPT !.words = mergePair(F.words, bestPair),
                            !.i = @ + 1, !.log = S.log]]

\* line 53: the call returns
Returned(F) == [F EXCEPT !.pc = "done"]

\* no call of a reading method has a result the caller still holds
NoCall == [op |-> "none", arg |-> <<>>, threw |-> FALSE, value |-> <<>>]

\* ------------------------------------------------------ TiktokenWrapper
\* encodingForModel(modelName) of js-tiktoken for the models of the registry;
\* for any other name it throws
EncodingForModel ==
    [m \in {"gpt-4o", "gpt-4o-mini", "gpt-4-turbo", "gpt-4", "gpt-3.5-turbo",
            "text-davinci-003", "text-davinci-002"} |->
        IF m \in {"gpt-4o", "gpt-4o-mini"} THEN "o200k_base"
        ELSE IF m \in {"text-davinci-003", "text-davinci-002"} THEN "p50k_base"
             ELSE "cl100k_base"]

\* a constructor whose catch branch keeps the name it was given
TiktokenWrapperKeepingName(modelName) ==
    IF modelName \in DOMAIN EncodingForModel
    THEN [encoding |-> EncodingForModel[modelName], modelName |-> modelName,
          freed |-> FALSE]
    ELSE [encoding |-> "cl100k_base", modelName |-> modelName, freed |-> FALSE]

\* new TiktokenWrapper(modelName); freed records that free() was called
TiktokenWrapper(modelName) ==
    IF modelName \in DOMAIN EncodingForModel
    THEN [encoding |-> EncodingForModel[modelName], modelName |-> modelName,
          freed |-> FALSE]
    ELSE [encoding |-> "cl100k_base", modelName |-> "cl100k_base",
          freed |-> FALSE]

\* getModelName()
getModelName(w) == w.modelName

\* free()
free(w) == [w EXCEPT !.freed = TRUE]

\* str.includes(sub)
Includes(str, sub) ==
    \E k \in 0..(Len(str) - Len(sub)) : SubSeq(str, k + 1, k + Len(sub)) = sub

\* wrapper.encode(text) throws: this.encoding.encode refuses a text that
\* holds a special token of the encoding
EncodeThrows(w, text) == text # <<>> /\ Includes(text, EndOfText)

\* ------------------------------------------------------------- the host
\* Object.entries(TIKTOKEN_MODELS), the keys
ModelKeys ==
    <<"gpt-4o", "gpt-4o-mini", "gpt-4-turbo", "gpt-4", "gpt-3.5-turbo",
      "text-davinci-003", "text-davinci-002">>

\* before the first render of TokenizerInterface: useState and useRef initial
\* values, no wrapper constructed, no timer set.  A wrapper is referred to by
\* its place in wrappers, and 0 is null.
InitialHost ==
    [phase |-> "initial", selectedModel |-> "gpt-4o", tokenizer |-> 0,
     tokenizerRef |-> 0, isInitializing |-> FALSE, isLoading |-> TRUE,
     timers |-> <<>>, wrappers |-> <<>>, lastInit |-> "none",
     results |-> "none", changes |-> 0, compares |-> 0]

\* if (tokenizerRef.current) { tokenizerRef.current.free();
\*                             tokenizerRef.current = null }
Released(H) ==
    IF H.tokenizerRef = 0 THEN H
    ELSE [H EXCEPT !.wrappers[H.tokenizerRef].obj = free(@),
                   !.tokenizerRef = 0]

\* an initializeTokenizer without the isInitializing guard
initializeTokenizerUnguarded(H, modelName) ==
    [Released(H) EXCEPT !.isInitializing = TRUE, !.isLoading = TRUE,
                        !.timers = Append(@, modelName),
                        !.lastInit = "started"]

\* lines 86-101: initializeTokenizer(modelName) up to its await
initializeTokenizer(H, modelName) ==
    IF H.isInitializing THEN [H EXCEPT !.lastInit = "rejected"]
    ELSE [Released(H) EXCEPT !.isInitializing = TRUE, !.isLoading = TRUE,
                             !.timers = Append(@, modelName),
                             !.lastInit = "started"]

\* lines 103-112: initializeTokenizer(modelName) after its await
Resumed(H, modelName) ==
    [H EXCEPT !.wrappers = Append(@, [obj |-> TiktokenWrapper(modelName),
                                      requested |-> modelName,
                                      owner |-> "TokenizerInterface"]),
              !.tokenizerRef = Len(H.wrappers) + 1,
              !.tokenizer = IF H.phase = "mounted" THEN Len(H.wrappers) + 1 ELSE @,
              !.isLoading = IF H.phase = "mounted" THEN FALSE ELSE @,
              !.isInitializing = FALSE,
              !.timers = Tail(@)]

RECURSIVE ComparedFrom(_, _, _)
\* the for loop of compareModels over the models from the k-th on
ComparedFrom(W, text, k) ==
    IF k > Len(ModelKeys) THEN W
    ELSE LET tokenizer == TiktokenWrapper(ModelKeys[k])
             after == IF EncodeThrows(tokenizer, text) THEN tokenizer
                      ELSE free(tokenizer)
         IN ComparedFrom(Append(W, [obj |-> after, requested |-> ModelKeys[k],
                                    owner |-> "ModelComparison"]),
                         text, k + 1)

\* --------------------------------------------------------------- inputs
CorpusChars == {"a", "b", " "}

Strings(n) == UNION {[1..k -> CorpusChars] : k \in 0..n}

\* 'ab ab ab ac', and two texts that hold the character of the pair separator
LongerCorpora ==
    {Str(<<"a", "b", " ", "a", "b", " ", "a", "b", " ", "a", "c">>),
     Str(<<"|", "a">>), Str(<<"a", "|">>)}

Corpora ==
    {Str(s) : s \in Strings(MaxLen)} \cup LongerCorpora
        \cup {JsNull, JsUndefined, JsNumber}

\* the smallest target the precondition allows, and those around the alphabet sizes
TargetSizes == {Len(specials) + 1} \cup ((Len(SeedChars) + 1)..MaxTarget)

\* what a later call on the same instance is given: nothing, the same
\* characters in another order, a character not seen before, a non-string
RetrainCorpora ==
    {Str(<<>>), Str(<<"b", "a">>), Str(<<"c", "a", "b">>), JsNull}

RetrainSizes == {Len(specials) + 1, MaxTarget}

InputsOf(F) ==
    IF F.call = 0 THEN Corpora \X TargetSizes ELSE RetrainCorpora \X RetrainSizes

\* the unknown token's id, the first alphabet id, an id a merge may take, an
\* id never assigned
QueryIds == {2, 4, 18, 9999999}

\* texts of a corpus character, a seed character and a character no corpus
\* holds, and the values that are not texts
EncodeInputs ==
    {Str(<<>>), Str(<<"a">>), Str(<<"z">>), Str(<<"[">>), Str(<<"a", "[">>),
     Str(<<"z", "a">>), JsNull, JsUndefined, JsNumber}

\* arrays of ids, and the values that are not arrays
DecodeInputs ==
    {JsArray(<<>>), JsArray(<<2>>), JsArray(<<4>>), JsArray(<<18>>),
     JsArray(<<9999999>>), JsArray(<<4, 9999999>>), JsArray(<<18, 2>>),
     Str(<<"a">>), JsNull, JsNumber}

\* what the caller of getVocab does to the Map it was given
SnapshotEdits ==
    {[kind |-> "set", key |-> <<"a">>, id |-> 0],
     [kind |-> "set", key |-> <<"z">>, id |-> 4],
     [kind |-> "delete", key |-> <<"[">>, id |-> 0],
     [kind |-> "clear", key |-> <<>>, id |-> 0]}

Edited(entries, e) ==
    IF e.kind = "set" THEN MapSet(entries, e.key, e.id)
    ELSE IF e.kind = "delete" THEN MapDelete(entries, e.key)
    ELSE EmptyMap

\* -------------------------------------------------------------- actions
Init ==
    /\ this = NewTokenizer
    /\ frame = IdleFrame
    /\ other = NewTokenizer
    /\ oframe = IdleFrame
    /\ ret = NoCall
    /\ host = InitialHost

\* this.trainFromText(text, vocabSize) is called and runs to the merge loop
trainFromText ==
    /\ frame.pc \in {"idle", "done", "threw"}
    /\ ret.op = "none"
    /\ frame.call < MaxCalls
    /\ \E in \in InputsOf(frame) :
           LET r == Called(this, frame, in[1], in[2])
           IN /\ this' = r.tok
              /\ frame' = r.frame
    /\ UNCHANGED <<other, oframe, ret, host>>

MergeIteration ==
    /\ frame.pc = "loop"
    /\ Continues(this, frame)
    /\ LET r == Iterated(this, frame)
       IN /\ this' = r.tok
          /\ frame' = r.frame
    /\ UNCHANGED <<other, oframe, ret, host>>

LoopExit ==
    /\ frame.pc = "loop"
    /\ ~Continues(this, frame)
    /\ frame' = Returned(frame)
    /\ UNCHANGED <<this, other, oframe, ret, host>>

Next == trainFromText \/ MergeIteration \/ LoopExit

Spec == Init /\ [][Next]_vars

\* ------------------------------------------- the default target size
\* a text with an adjacent pair, one without, the empty text, a non-string
DefaultCorpora == {Str(<<"a", "b">>), Str(<<"a">>), Str(<<>>), JsUndefined}

\* this.trainFromText(text) on a fresh instance: vocabSize is 8000
trainFromTextDefault ==
    /\ frame.pc = "idle"
    /\ ret.op = "none"
    /\ \E text \in DefaultCorpora :
           LET r == Called(this, frame, text, DefaultVocabSize)
           IN /\ this' = r.tok
              /\ frame' = r.frame
    /\ UNCHANGED <<other, oframe, ret, host>>

NextDefault ==
    \/ trainFromText
    \/ trainFromTextDefault
    \/ MergeIteration
    \/ LoopExit

SpecDefault == Init /\ [][NextDefault]_vars

\* ------------------------------------------------- the reading methods
\* trainFromText is synchronous: a reading method runs only between calls,
\* and the calls of one caller follow one another
Callable == frame.pc \in {"idle", "done", "threw"} /\ ret.op = "none"

\* this.encode(text)
Encode ==
    /\ Callable
    /\ \E v \in EncodeInputs :
           LET r == Encoded(this, v)
           IN /\ this' = r.tok
              /\ ret' = [op |-> "encode", arg |-> v, threw |-> r.threw,
                         value |-> r.value]
    /\ UNCHANGED <<frame, other, oframe, host>>

\* this.decode(tokens)
Decode ==
    /\ Callable
    /\ \E v \in DecodeInputs :
           LET r == Decoded(this, v)
           IN /\ this' = r.tok
              /\ ret' = [op |-> "decode", arg |-> v, threw |-> r.threw,
                         value |-> r.value]
    /\ UNCHANGED <<frame, other, oframe, host>>

\* this.getTokenText(tokenId)
GetTokenText ==
    /\ Callable
    /\ \E id \in QueryIds :
           ret' = [op |-> "getTokenText", arg |-> id, threw |-> FALSE,
                   value |-> getTokenText(this, id)]
    /\ UNCHANGED <<this, frame, other, oframe, host>>

\* this.getVocabSize()
GetVocabSize ==
    /\ Callable
    /\ ret' = [op |-> "getVocabSize", arg |-> <<>>, threw |-> FALSE,
               value |-> getVocabSize(this)]
    /\ UNCHANGED <<this, frame, other, oframe, host>>

\* this.getVocab()
GetVocab ==
    /\ Callable
    /\ ret' = [op |-> "getVocab", arg |-> <<>>, threw |-> FALSE,
               value |-> getVocab(this)]
    /\ UNCHANGED <<this, frame, other, oframe, host>>

\* the caller sets, deletes or clears entries of the Map getVocab returned;
\* the tokenizer's table changes with it exactly when it is the same object
EditReturnedMap ==
    /\ ret.op = "getVocab"
    /\ \E e \in SnapshotEdits :
           LET entries == Edited(ret.value.entries, e)
           IN /\ ret' = [op |-> "edit", arg |-> e, threw |-> FALSE,
                         value |-> [live |-> ret.value.live, entries |-> entries]]
              /\ this' = IF ret.value.live
                         THEN [this EXCEPT !.vocab = entries]
                         ELSE this
    /\ UNCHANGED <<frame, other, oframe, host>>

\* the caller is done with what the reading method returned
ResultTaken ==
    /\ ret.op # "none"
    /\ ret' = NoCall
    /\ UNCHANGED <<this, frame, other, oframe, host>>

NextOps ==
    \/ trainFromText
    \/ MergeIteration
    \/ LoopExit
    \/ Encode
    \/ Decode
    \/ GetTokenText
    \/ GetVocabSize
    \/ GetVocab
    \/ EditReturnedMap
    \/ ResultTaken

SpecOps == Init /\ [][NextOps]_vars

\* ------------------------------------------- two instances, the same input
\* the first call on `this`
FirstTrain ==
    /\ frame.call = 0
    /\ trainFromText

\* other.trainFromText(text, vocabSize) with the arguments `this` was given
OtherTrain ==
    /\ oframe.pc = "idle"
    /\ frame.call = 1
    /\ LET r == Called(other, oframe, frame.text, frame.vocabSize)
       IN /\ other' = r.tok
          /\ oframe' = r.frame
    /\ UNCHANGED <<this, frame, ret, host>>

OtherMergeIteration ==
    /\ oframe.pc = "loop"
    /\ Continues(other, oframe)
    /\ LET r == Iterated(other, oframe)
       IN /\ other' = r.tok
          /\ oframe' = r.frame
    /\ UNCHANGED <<this, frame, ret, host>>

OtherLoopExit ==
    /\ oframe.pc = "loop"
    /\ ~Continues(other, oframe)
    /\ oframe' = Returned(oframe)
    /\ UNCHANGED <<this, other, frame, ret, host>>

NextTwin ==
    \/ FirstTrain
    \/ MergeIteration
    \/ LoopExit
    \/ OtherTrain
    \/ OtherMergeIteration
    \/ OtherLoopExit

SpecTwin == Init /\ [][NextTwin]_vars

\* ----------------------------------------------- the host, by event
\* the models the selector offers, and a name the library does not know
ModelChoices == {"gpt-4o", "gpt-4", "text-davinci-003", "gpt-next"}

\* a plain text, a text that holds a special token, a blank text
HostTexts == {<<"h", "i">>, <<"a">> \o EndOfText, <<" ">>}

toolVars == <<this, frame, other, oframe, ret>>

\* first render of TokenizerInterface: the effect runs
Mount ==
    /\ host.phase = "initial"
    /\ host' = initializeTokenizer([host EXCEPT !.phase = "mounted"],
                                   host.selectedModel)
    /\ UNCHANGED toolVars

\* handleModelChange(newModel) with a new model: the state is set, the
\* cleanup of the last effect runs, then the effect
handleModelChange ==
    /\ host.phase = "mounted"
    /\ host.changes < MaxModelChanges
    /\ \E newModel \in ModelChoices \ {host.selectedModel} :
           host' = initializeTokenizer(
                       Released([host EXCEPT !.selectedModel = newModel,
                                             !.results = "none",
                                             !.changes = @ + 1]),
                       newModel)
    /\ UNCHANGED toolVars

\* TokenizerInterface is unmounted: the cleanup of the last effect runs
Unmount ==
    /\ host.phase = "mounted"
    /\ host' = Released([host EXCEPT !.phase = "unmounted"])
    /\ UNCHANGED toolVars

\* the 300 ms timer of a run fires and the run goes on after its await
TimerFires ==
    /\ host.timers # <<>>
    /\ host' = Resumed(host, Head(host.timers))
    /\ UNCHANGED toolVars

\* handleEncode(text)
handleEncode ==
    /\ host.phase = "mounted"
    /\ \E text \in HostTexts :
           host' = [host EXCEPT !.results =
                       IF host.tokenizer = 0 \/ Trim(text) = <<>> THEN "cleared"
                       ELSE IF EncodeThrows(host.wrappers[host.tokenizer].obj, text)
                            THEN "failed"
                            ELSE "tokens"]
    /\ UNCHANGED toolVars

\* compareModels(text) of ModelComparison, which has no await
compareModels ==
    /\ host.compares < MaxCompares
    /\ \E text \in HostTexts :
           /\ Trim(text) # <<>>
           /\ host' = [host EXCEPT !.wrappers = ComparedFrom(@, text, 1),
                                   !.compares = @ + 1]
    /\ UNCHANGED toolVars

NextHost ==
    \/ Mount
    \/ handleModelChange
    \/ Unmount
    \/ TimerFires
    \/ handleEncode
    \/ compareModels

SpecHost == Init /\ [][NextHost]_vars

\* ---------------------------------------------------------------- claims
Max(a, b) == IF a > b THEN a ELSE b

\* the call on `this` has returned
Finished == frame.pc = "done"

\* the call on `this` is the first one since construction
FirstCall == frame.call = 1

\* no call on `this` is running
AtRest == frame.pc \in {"idle", "done"}

\* the texts of at most n characters over the characters of chars
TextsOver(chars, n) == UNION {[1..k -> Range(chars)] : k \in 0..n}

\* C1: after trainFromText on a fresh instance with at least one merge, every
\* text made of characters of the trained alphabet (corpus characters and seed
\* characters) decodes back from its encoding: decode(encode(text)) = text.
C1_RoundTrip ==
    (Finished /\ FirstCall /\ Len(this.merges) >= 1)
        => \A t \in TextsOver(frame.chars, MaxTextLen) :
               decode(this, encode(this, t)) = t

\* C2: whenever no call is running, the decoder is the inverse of the
\* vocabulary, decoder[vocab[s]] = s for every symbol s, and of the special
\* tokens, decoder[specialTokens[t]] = t.
C2_DecoderInverse ==
    AtRest =>
        /\ \A sym \in DOMAIN this.vocab :
               /\ MapHas(this.decoder, this.vocab[sym])
               /\ this.decoder[this.vocab[sym]] = sym
        /\ \A t \in DOMAIN this.specialTokens :
               /\ MapHas(this.decoder, this.specialTokens[t])
               /\ this.decoder[this.specialTokens[t]] = t

\* C3: whenever no call is running, no two distinct symbols of the vocabulary
\* have the same id.
C3_UniqueIds ==
    AtRest =>
        \A s1, s2 \in DOMAIN this.vocab :
            s1 # s2 => this.vocab[s1] # this.vocab[s2]

\* C4: during trainFromText the id given to an entry new to the vocabulary is
\* greater than every id assigned earlier in the call, so none is used twice.
C4_MonotonicIds ==
    \A k \in 1..Len(frame.log) :
        frame.log[k].fresh =>
            \A j \in 1..(k - 1) : frame.log[j].id < frame.log[k].id

\* C5: a symbol that has an id keeps that id in every later step, be it a
\* merge iteration of the same call or a later trainFromText call.
C5_IdStability ==
    [][\A sym \in DOMAIN this.vocab :
           /\ MapHas(this'.vocab, sym)
           /\ this'.vocab[sym] = this.vocab[sym]]_vars

\* C6 as stated: after trainFromText(corpus, target) on a fresh instance with
\* target above the special-token count, getVocabSize() is at most target.
C6_BoundedByTarget ==
    (Finished /\ FirstCall /\ frame.vocabSize > Len(specials))
        => getVocabSize(this) <= frame.vocabSize

\* C6 amended: after trainFromText(corpus, target) on a fresh instance,
\* getVocabSize() is at most target when target is at least the size of the
\* seeded alphabet (the distinct characters of corpus and seed), and is
\* exactly the size of that alphabet when target is smaller.
C6_BoundedGrowth ==
    (frame.pc \in {"done", "threw"} /\ FirstCall /\ frame.vocabSize > Len(specials))
        => IF frame.vocabSize >= Len(frame.chars)
           THEN getVocabSize(this) <= frame.vocabSize
           ELSE getVocabSize(this) = Len(frame.chars)

\* C6 witness: a first call that merged and ended with the vocabulary at its target
C6_Witness ==
    /\ Finished
    /\ FirstCall
    /\ Len(this.merges) >= 1
    /\ getVocabSize(this) = frame.vocabSize

TrainedOnEmpty(vocabSize) ==
    Called(NewTokenizer, IdleFrame, Str(<<>>), vocabSize).tok

\* C8: trainFromText never throws, whatever the corpus value; given a
\* non-string (null, undefined, a number) a fresh instance returns in the
\* state that training on the empty string leaves.
C8_NeverRaises ==
    /\ frame.pc # "threw"
    /\ (Finished /\ FirstCall /\ frame.text.kind # "string")
           => this = TrainedOnEmpty(frame.vocabSize)

\* C9 as stated: getVocabSize() after trainFromText('', n) equals
\* getVocabSize() before the call, on a fresh instance and on a trained one.
C9_SizeUnchanged ==
    (Finished /\ frame.text = Str(<<>>))
        => getVocabSize(this) = frame.sizeBefore

\* C9 amended: trainFromText('', n) records no merge rule and adds nothing
\* but the fixed seed characters: on an instance trained before,
\* getVocabSize() equals its value before the call; on a fresh instance it
\* is the number of seed characters.
C9_EmptyCorpus ==
    (Finished /\ frame.text = Str(<<>>))
        => /\ Len(this.merges) = frame.mergesBefore
           /\ getVocabSize(this) =
                  IF FirstCall THEN Len(SeedChars) ELSE frame.sizeBefore

\* C9 witness: an instance whose first training merged returns from
\* trainFromText('', n)
C9_Witness ==
    /\ Finished
    /\ frame.call = 2
    /\ frame.text = Str(<<>>)
    /\ frame.mergesBefore >= 1
    /\ frame.sizeBefore > Len(SeedChars)

\* C10: after trainFromText on a fresh instance the number of merge rules is
\* the final vocabulary size less the initial alphabet size less the
\* special-token count; the vocabulary size is getVocabSize(), or that plus
\* the special tokens.
C10_MergeCount ==
    (Finished /\ FirstCall)
        => \/ Len(this.merges) =
                  getVocabSize(this) - Len(frame.chars) - Len(specials)
           \/ Len(this.merges) =
                  (getVocabSize(this) + Len(specials)) - Len(frame.chars)
                      - Len(specials)

\* C11: encode(text) of a string returns one id per character, in order: the
\* character's vocabulary id when the vocabulary holds it, 2 otherwise; on an
\* untrained instance every id is 2.
C11_EncodePerChar ==
    (ret.op = "encode" /\ ret.arg.kind = "string")
        => /\ ~ret.threw
           /\ Len(ret.value) = Len(ret.arg.chars)
           /\ \A k \in 1..Len(ret.arg.chars) :
                  ret.value[k] =
                      IF MapHas(this.vocab, <<ret.arg.chars[k]>>)
                      THEN this.vocab[<<ret.arg.chars[k]>>]
                      ELSE 2
           /\ frame.call = 0 => \A k \in 1..Len(ret.value) : ret.value[k] = 2

\* C11 witness: a trained instance encodes a text of an unknown and a known
\* character
C11_Witness ==
    /\ ret.op = "encode"
    /\ ret.arg.kind = "string"
    /\ ret.arg.chars = <<"z", "a">>
    /\ Finished
    /\ ret.value[1] = 2
    /\ ret.value[2] # 2

\* C12: decode(ids) of an array is the concatenation, in order and with no
\* separator, of the decoder's symbol of each assigned id and of
\* '<|unknown|>' for each id never assigned.
C12_DecodeConcat ==
    (ret.op = "decode" /\ ret.arg.kind = "array")
        => /\ ~ret.threw
           /\ ret.value =
                  Concat([k \in 1..Len(ret.arg.items) |->
                             IF MapHas(this.decoder, ret.arg.items[k])
                             THEN this.decoder[ret.arg.items[k]]
                             ELSE Unknown])
           /\ ret.arg.items = <<9999999>> => ret.value = Unknown

\* C12 witness: a trained instance decodes an assigned id followed by an id
\* never assigned
C12_Witness ==
    /\ ret.op = "decode"
    /\ ret.arg.kind = "array"
    /\ ret.arg.items = <<4, 9999999>>
    /\ Finished
    /\ MapHas(this.decoder, 4)
    /\ ret.value = this.decoder[4] \o Unknown

\* C13: encode of '', null or undefined returns the empty sequence, and decode
\* of a value that is not an array returns the empty string; neither throws
\* and neither changes the tokenizer, whatever its state.
C13_Fallbacks ==
    [][/\ (ret'.op = "encode" /\ ret'.arg \in {Str(<<>>), JsNull, JsUndefined})
           => (~ret'.threw /\ ret'.value = <<>> /\ this' = this)
       /\ (ret'.op = "decode" /\ ret'.arg.kind # "array")
           => (~ret'.threw /\ ret'.value = <<>> /\ this' = this)]_vars

\* C13 witness: encode(undefined) returned on an instance whose training threw
C13_Witness ==
    /\ ret.op = "encode"
    /\ ret.arg.kind = "undefined"
    /\ frame.pc = "threw"
    /\ ret.value = <<>>

\* C14: at every moment, after construction and after any trainFromText
\* calls, ids 0, 1, 2, 3 decode to '<|endoftext|>', '<|startoftext|>',
\* '<|unknown|>', '<|space|>' in that order, and no vocabulary entry has an id
\* in 0..3.
C14_SpecialIdsFixed ==
    /\ \A k \in 1..Len(specials) :
           /\ decode(this, <<k - 1>>) = specials[k]
           /\ getTokenText(this, k - 1) = specials[k]
    /\ decode(this, <<0, 1, 2, 3>>) = EndOfText \o StartOfText \o Unknown \o Space
    /\ \A token \in DOMAIN this.vocab : this.vocab[token] \notin 0..3

\* C14 witness: two trainFromText calls have returned, both having seeded and
\* the first having merged
C14_Witness ==
    /\ Finished
    /\ frame.call = 2
    /\ frame.mergesBefore >= 1
    /\ Len(frame.log) >= Len(SeedChars)
    /\ getTokenText(this, 2) = Unknown

\* C15: no step of any operation removes a symbol from the vocabulary or
\* changes or removes a recorded merge rule: the vocabulary before a
\* trainFromText call is contained in the one after it, the merge rules
\* before it are a prefix of those after it, and neither count decreases.
C15_Accumulates ==
    [][/\ DOMAIN this.vocab \subseteq DOMAIN this'.vocab
       /\ getVocabSize(this) <= getVocabSize(this')
       /\ Len(this.merges) <= Len(this'.merges)
       /\ SubSeq(this'.merges, 1, Len(this.merges)) = this.merges]_vars

\* C15 witness: a second trainFromText call on a trained instance has
\* returned with more symbols and more merge rules than it started with
C15_Witness ==
    /\ Finished
    /\ frame.call = 2
    /\ frame.mergesBefore >= 1
    /\ Len(this.merges) > frame.mergesBefore
    /\ getVocabSize(this) > frame.sizeBefore

ReadingMethods == {"encode", "decode", "getTokenText", "getVocabSize", "getVocab"}

\* C16: a call of encode, decode, getTokenText, getVocabSize or getVocab, with
\* any argument and in any state of the tokenizer, leaves the vocabulary, the
\* decoder, the special-token table and the merge rules as they were.
C16_ReadOnly ==
    [][(ret.op = "none" /\ ret'.op \in ReadingMethods)
           => /\ this'.vocab = this.vocab
              /\ this'.decoder = this.decoder
              /\ this'.specialTokens = this.specialTokens
              /\ this'.merges = this.merges]_vars

\* C16 witness: encode of a text with a character the trained vocabulary does
\* not hold has returned
C16_Witness ==
    /\ ret.op = "encode"
    /\ ret.arg.kind = "string"
    /\ ret.arg.chars = <<"z">>
    /\ Finished
    /\ Len(this.merges) >= 1
    /\ ~MapHas(this.vocab, <<"z">>)

\* C17: the Map getVocab returns holds the vocabulary of the moment of the
\* call, and a set, delete or clear on it changes neither the tokenizer's
\* vocabulary nor what encode returns afterwards.
C17_DefensiveCopy ==
    [][/\ (ret.op = "none" /\ ret'.op = "getVocab")
           => ret'.value.entries = this.vocab
       /\ (ret.op = "getVocab" /\ ret'.op = "edit")
           => /\ this'.vocab = this.vocab
              /\ \A v \in EncodeInputs :
                     Encoded(this', v).value = Encoded(this, v).value]_vars

\* C17 witness: the caller deleted an entry of the Map a trained tokenizer
\* returned, which the tokenizer still holds
C17_Witness ==
    /\ ret.op = "edit"
    /\ ret.arg.kind = "delete"
    /\ Finished
    /\ MapHas(this.vocab, ret.arg.key)
    /\ ~MapHas(ret.value.entries, ret.arg.key)

\* the wrappers TokenizerInterface constructed
OfInterface == {k \in DOMAIN host.wrappers :
                   host.wrappers[k].owner = "TokenizerInterface"}

\* the encoding a name returned by getModelName stands for: a model's
\* encoding, or the encoding of that name
NamedEncoding(name) ==
    IF name \in DOMAIN EncodingForModel THEN EncodingForModel[name] ELSE name

\* C18: a TiktokenWrapper constructed with a name the library does not
\* recognise uses the cl100k_base encoding and getModelName() returns
\* 'cl100k_base'; constructed with a recognised model it uses that model's
\* encoding and getModelName() returns the requested name; either way
\* getModelName() names the encoding in use.
C18_Fallback ==
    \A k \in DOMAIN host.wrappers :
        LET w == host.wrappers[k]
        IN /\ w.requested \in DOMAIN EncodingForModel
                  => /\ getModelName(w.obj) = w.requested
                     /\ w.obj.encoding = EncodingForModel[w.requested]
           /\ w.requested \notin DOMAIN EncodingForModel
                  => /\ getModelName(w.obj) = "cl100k_base"
                     /\ w.obj.encoding = "cl100k_base"
           /\ NamedEncoding(getModelName(w.obj)) = w.obj.encoding

\* C18 witness: the interface holds a wrapper it constructed for a name the
\* library does not know
C18_Witness ==
    /\ host.tokenizerRef # 0
    /\ host.wrappers[host.tokenizerRef].requested \notin DOMAIN EncodingForModel
    /\ host.selectedModel = host.wrappers[host.tokenizerRef].requested

\* C19: once TokenizerInterface is not mounted, no initialization is pending
\* and compareModels is not running, every TiktokenWrapper the host
\* constructed has had free() called on it.
C19_NoLeak ==
    (host.phase # "mounted" /\ host.timers = <<>>)
        => \A k \in DOMAIN host.wrappers : host.wrappers[k].obj.freed

\* C20: at most one initializeTokenizer run is pending; a call made while a
\* run is pending frees and constructs nothing and sets no timer; when a run
\* constructs its wrapper, every wrapper the interface constructed before
\* has been freed.
C20_SingleRun ==
    [][/\ Len(host'.timers) <= 1
       /\ (host.isInitializing /\ host'.changes = host.changes + 1)
           => /\ host'.lastInit = "rejected"
              /\ host'.wrappers = host.wrappers
              /\ host'.timers = host.timers
              /\ host'.tokenizerRef = host.tokenizerRef
       /\ Len(host'.timers) < Len(host.timers)
           => \A k \in OfInterface : host.wrappers[k].obj.freed]_vars

\* C20 witness: a model change was rejected while the run of the change
\* before it, which freed the first wrapper, is still pending
C20_Witness ==
    /\ host.lastInit = "rejected"
    /\ host.changes = 2
    /\ Len(host.timers) = 1
    /\ OfInterface # {}
    /\ \A k \in OfInterface : host.wrappers[k].obj.freed

\* the positions of word at which x is immediately followed by y
FollowedAt(word, x, y) ==
    {k \in 1..(Len(word) - 1) : word[k] = x /\ word[k + 1] = y}

RECURSIVE Frequency(_, _, _)
\* the number of positions, inside the words of ws, at which x is
\* immediately followed by y
Frequency(ws, x, y) ==
    IF ws = <<>> THEN 0
    ELSE Cardinality(FollowedAt(Head(ws), x, y)) + Frequency(Tail(ws), x, y)

\* the characters of the words of ws
SymbolsOf(ws) == UNION {Range(ws[k]) : k \in 1..Len(ws)}

\* the ordered pairs adjacent somewhere in a word of ws
CountedPairs(ws) ==
    {p \in SymbolsOf(ws) \X SymbolsOf(ws) : Frequency(ws, p[1], p[2]) > 0}

\* the counted pairs that no counted pair exceeds in frequency
MostFrequent(ws) ==
    {p \in CountedPairs(ws) :
        \A q \in CountedPairs(ws) :
            Frequency(ws, q[1], q[2]) <= Frequency(ws, p[1], p[2])}

\* this step is one iteration of the merge loop of the call on `this`
MergeStep == frame.pc = "loop" /\ frame'.i = frame.i + 1

\* the merge rule the step records
Recorded == this'.merges[Len(this'.merges)]

\* 'ab ab ab ac'
AbAbAbAc == Str(<<"a", "b", " ", "a", "b", " ", "a", "b", " ", "a", "c">>)

\* C21: the pair a merge iteration selects is a counted pair of the highest
\* frequency: the rule it records joins to that pair's key and the symbol it
\* adds is that pair's concatenation; trained on 'ab ab ab ac' with room for
\* one merge, a fresh instance records the one rule (a, b) and holds 'ab'.
C21_HighestFrequency ==
    [][/\ MergeStep
           => \E p \in MostFrequent(frame.words) :
                  /\ Recorded[1] \o PairSeparator \o Recorded[2] = PairKey(p[1], p[2])
                  /\ MapHas(this'.vocab, <<p[1], p[2]>>)
       /\ (frame'.pc = "done" /\ frame'.call = 1 /\ frame'.text = AbAbAbAc
              /\ frame'.vocabSize = Len(frame'.chars) + 1)
           => /\ this'.merges = << <<(<<"a">>), (<<"b">>)>> >>
              /\ MapHas(this'.vocab, <<"a", "b">>)]_vars

\* C21 witness: the call on 'ab ab ab ac' with room for one merge has returned
\* with one rule
C21_Witness ==
    /\ Finished
    /\ FirstCall
    /\ frame.text = AbAbAbAc
    /\ frame.vocabSize = Len(frame.chars) + 1
    /\ Len(this.merges) = 1
    /\ Cardinality(CountedPairs(frame.words)) >= 2

\* the UTF-16 code unit of a character of the corpora
CharCode(c) ==
    CASE c = " " -> 32
      [] c = "a" -> 97
      [] c = "b" -> 98
      [] c = "c" -> 99
      [] c = "|" -> 124

\* pair p is not after pair q in the lexicographic order of (left, right)
LexLeq(p, q) ==
    \/ CharCode(p[1]) < CharCode(q[1])
    \/ p[1] = q[1] /\ CharCode(p[2]) <= CharCode(q[2])

\* C22: the pair a merge iteration selects is, among the counted pairs of the
\* highest frequency, the lexicographically smallest (left, right) pair.
C22_TieBreak ==
    [][MergeStep
           => \E p \in MostFrequent(frame.words) :
                  /\ Recorded[1] \o PairSeparator \o Recorded[2] = PairKey(p[1], p[2])
                  /\ \A q \in MostFrequent(frame.words) : LexLeq(p, q)]_vars

\* the words, as the next getPairs reads them, still count pair (l, r)
StillCounted(ws, l, r) ==
    \E k \in 1..Len(getPairs(ws)) :
        getPairs(ws)[k].key = l \o PairSeparator \o r

\* C23: after a merge iteration has merged pair (l, r), the occurrences of l
\* followed by r are one symbol in every word, so the next pair count has no
\* entry for (l, r).
C23_MergeApplied ==
    [][MergeStep
           => ~StillCounted(frame'.words, Recorded[1], Recorded[2])]_vars

\* the merge rules the running call on `this` has recorded
RulesOfCall == SubSeq(this.merges, frame.mergesBefore + 1, Len(this.merges))

\* the ids the vocabulary and the special tokens use
IdsInUse(T) ==
    {T.vocab[t] : t \in DOMAIN T.vocab}
        \cup {T.specialTokens[t] : t \in DOMAIN T.specialTokens}

\* C24: a merge iteration records one rule and adds one symbol the vocabulary
\* did not hold, under an id not in use, so getVocabSize() grows by 1; and
\* the rules one call records are pairwise distinct.
C24_OneNewEntry ==
    [][/\ MergeStep
           => /\ Len(this'.merges) = Len(this.merges) + 1
              /\ getVocabSize(this') = getVocabSize(this) + 1
              /\ \E t \in DOMAIN this'.vocab \ DOMAIN this.vocab :
                     this'.vocab[t] \notin IdsInUse(this)
       /\ \A j, k \in 1..Len(RulesOfCall) :
              j # k => RulesOfCall[j] # RulesOfCall[k]]_vars

\* C25: when a trainFromText call returns, it has run 2000 merge iterations,
\* or getVocabSize() has reached the target, or no word holds an adjacent
\* pair; and a call on a corpus with no adjacent pair records no merge rule.
C25_StopConditions ==
    Finished
        => /\ \/ frame.i >= MaxMergeIterations
              \/ getVocabSize(this) >= frame.vocabSize
              \/ CountedPairs(frame.words) = {}
           /\ CountedPairs(preprocessText(frame.text.chars)) = {}
                  => Len(this.merges) = frame.mergesBefore

\* getVocabSize() of `this` right after the seeding of the running call
SizeAfterSeeding ==
    frame.sizeBefore
        + Cardinality({k \in 1..Len(frame.chars) : frame.log[k].fresh})

\* the most merge iterations the running call may make
IterationBound ==
    Max(0, Min(MaxMergeIterations, frame.vocabSize - SizeAfterSeeding))

\* C26: every trainFromText call terminates within min(2000, target size -
\* vocabulary size right after seeding) merge iterations: each step of a call
\* in its loop either returns or is one more iteration, counted by i, and i
\* never exceeds that number, which is fixed for the call.
C26_BoundedTraining ==
    [][/\ frame'.pc \in {"loop", "done"} => frame'.i <= IterationBound'
       /\ (frame.pc = "loop" /\ frame' # frame)
           => /\ IterationBound' = IterationBound
              /\ \/ frame'.pc = "done" /\ frame'.i = frame.i
                 \/ frame'.pc = "loop" /\ frame'.i = frame.i + 1]_vars

\* C26 witness: a call has returned after the 2000 iterations of the cap
C26_Witness ==
    /\ Finished
    /\ frame.i = MaxMergeIterations
    /\ frame.vocabSize - SizeAfterSeeding > MaxMergeIterations

\* the entries of a pair table under one key
EntriesOf(pairs, key) == {k \in 1..Len(pairs) : pairs[k].key = key}

\* C27: getPairs of the current word list has, for each ordered pair (x, y)
\* adjacent inside a word, one entry whose count is the number of positions
\* at which x is immediately followed by y inside one word, and no other
\* entry; the end of a word and the start of the next are not a pair.
C27_PairCounting ==
    frame.pc \in {"loop", "done"}
        => LET pairs == getPairs(frame.words)
               symbols == SymbolsOf(frame.words)
           IN /\ \A x, y \in symbols :
                     IF Frequency(frame.words, x, y) = 0
                     THEN EntriesOf(pairs, PairKey(x, y)) = {}
                     ELSE /\ Cardinality(EntriesOf(pairs, PairKey(x, y))) = 1
                          /\ \A k \in EntriesOf(pairs, PairKey(x, y)) :
                                 pairs[k].count = Frequency(frame.words, x, y)
              /\ \A k \in 1..Len(pairs) :
                     \E p \in CountedPairs(frame.words) :
                         pairs[k].key = PairKey(p[1], p[2])

\* C27 witness: the loop has counted the pairs of the words of 'ab ab ab ac',
\* in which b is followed by a only across words
C27_Witness ==
    /\ frame.pc = "loop"
    /\ frame.i >= 1
    /\ Len(frame.words) = 4
    /\ Frequency(frame.words, "a", "b") = 3
    /\ Frequency(frame.words, "b", "a") = 0
    /\ Len(getPairs(frame.words)) = 2

\* the places of s that hold the first occurrence of their character
FirstOccurrences(s) ==
    {k \in 1..Len(s) : \A j \in 1..(k - 1) : s[j] # s[k]}

\* C28: right after the seeding of the first call on a fresh instance, the
\* k-th distinct character (k from 0, in first-occurrence order) of the
\* corpus followed by the seed characters has id 4 + k, the decoder maps
\* 4 + k back to it, and the vocabulary holds nothing else.
C28_AlphabetSeeding ==
    (FirstCall /\ frame.i = 0 /\ frame.text.kind = "string")
        => LET s == frame.text.chars \o SeedChars
               first == FirstOccurrences(s)
           IN /\ \A n \in first :
                     LET k == Cardinality({j \in first : j < n})
                     IN /\ MapHas(this.vocab, <<s[n]>>)
                        /\ this.vocab[<<s[n]>>] = 4 + k
                        /\ MapHas(this.decoder, 4 + k)
                        /\ this.decoder[4 + k] = <<s[n]>>
              /\ MapSize(this.vocab) = Cardinality(first)

\* C28 witness: a fresh instance has seeded a corpus whose second character
\* repeats its first and whose third is a seed character
C28_Witness ==
    /\ FirstCall
    /\ frame.i = 0
    /\ frame.pc = "loop"
    /\ frame.text = Str(<<"b", "b", " ">>)
    /\ this.vocab[<<"b">>] = 4
    /\ this.vocab[<<" ">>] = 5
    /\ this.vocab[<<"}">>] = 4 + Len(SeedChars)

C30_RulesAreCountedPairs ==
    (frame.pc \in {"loop", "done"} /\ frame.text.kind = "string")
        => \A k \in 1..Len(RulesOfCall) :
               /\ Len(RulesOfCall[k]) = 2
               /\ RulesOfCall[k][1] # <<>>
               /\ RulesOfCall[k][2] # <<>>
               /\ \E p \in CountedPairs(preprocessText(frame.text.chars)) :
                      RulesOfCall[k] = << <<p[1]>>, <<p[2]>> >>

====
